---- MODULE Spec2Model ----
(***************************************************************************)
(* Payment reconciliation of the PayGate plugin: the server callback, the  *)
(* browser redirects and the sweep (retry_baskets_payed_in_paygate), run   *)
(* against a payment gateway and the host's basket/order store.            *)
(***************************************************************************)
EXTENDS Integers, Sequences, FiniteSets, TLC

None == "None"

(***************************************************************************)
(* Site data: baskets, their owners, the processor configuration.          *)
(***************************************************************************)

\* purchase references (basket.order_number) for which a basket exists
BasketRefs == {"R1", "R2"}

\* a purchase reference known to the gateway for which no basket resolves
OrphanRef == "RX"

Refs == BasketRefs \cup {OrphanRef}

\* self.configuration["merchant_code"]
merchant_code == "NAU"

\* Basket.objects.get(id=OrderNumberGenerator().basket_id(payment_ref)):
\* the basket of a reference, None when no basket resolves
get_basket_from_payment_ref(payment_ref) ==
    IF payment_ref \in BasketRefs THEN payment_ref ELSE None

\* user.addresses.get(is_default_for_billing=True): the owner of the basket of
\* R1 has an address marked as default for billing, the owner of R2 has none
_get_user_billing_address(basket) ==
    IF basket = "R1" THEN "address" ELSE None

\* basket.currency
basket_currency(basket) ==
    IF basket = "R1" THEN "EUR" ELSE "USD"

(***************************************************************************)
(* Caller address and allow-list (ip.py).  Addresses are AddressBits wide. *)
(***************************************************************************)

AddressBits == 3

\* a network is [addr, prefixlen]; a single address has prefixlen AddressBits
InNetwork(ip, net) ==
    LET size == 2 ^ (AddressBits - net.prefixlen)
    IN (ip \div size) = (net.addr \div size)

\* the two processor configurations the model runs under: the required keys
\* only, and one with the optional keys set: the allow-list {6/3, 2/2} =
\* {6} \cup {2, 3} and custom error and cancel paths
Configurations ==
    { [merchant_code |-> merchant_code],
      [merchant_code |-> merchant_code,
       callback_server_allowed_networks |->
           << [addr |-> 6, prefixlen |-> 3], [addr |-> 2, prefixlen |-> 2] >>,
       error_path |-> "/some/error/custom/path",
       cancel_checkout_path |-> "/another/path"] }

\* the X-Forwarded-For header as the list of its comma separated entries,
\* <<>> when the header is absent
XForwardedFors == { <<>>, <<3, 1>> }

RemoteAddrs == {1, 6}

\* the (X-Forwarded-For, REMOTE_ADDR) pairs of the requests of the model
ClientAddrs == { <<xff, a>> \in XForwardedFors \X RemoteAddrs : xff = <<>> \/ a = 1 }

get_client_ip(xff, remote_addr) ==
    IF xff # <<>> THEN Head(xff) ELSE remote_addr

\* is ip a member of one of the networks
MemberOfSome(ip, networks) ==
    \E i \in 1..Len(networks) : InNetwork(ip, networks[i])

\* allowed_client_ip evaluates next(filter(...) is not None): the argument of
\* next() is the boolean "the filter object is not None", which is no iterator,
\* so the call raises TypeError for every client_ip and every list
allowed_client_ip(client_ip, networks) ==
    LET filter_is_not_none == TRUE
    IN IF filter_is_not_none \in BOOLEAN
       THEN "TypeError"
       ELSE IF MemberOfSome(client_ip, networks) THEN "True" ELSE "False"

(***************************************************************************)
(* The gateway: a catalogue of transactions, of which `paygate` holds the  *)
(* ones posted so far.  Transactions are listed in PAYMENT_REF order.      *)
(***************************************************************************)

\* R1 can be paid twice (a second completed transaction), R2 once, and RX is
\* a payment of a reference without basket
TxIds == {1, 2, 3, 4}

Tx(i) ==
    CASE i = 1 -> [MERCHANT_CODE |-> "NAU", STATUS_CODE |-> "C", PAYMENT_REF |-> "R1", TRANSACTION_ID |-> 1,
                   PAYMENT_AMOUNT |-> <<"2", "0", ".", "0", "0">>, PAYMENT_TYPE_CODE |-> "VISA",
                   CARD_MASKED_PAN |-> "1234"]
      [] i = 2 -> [MERCHANT_CODE |-> "NAU", STATUS_CODE |-> "C", PAYMENT_REF |-> "R1", TRANSACTION_ID |-> 2,
                   PAYMENT_AMOUNT |-> <<"2", "0", ".", "0", "0">>, PAYMENT_TYPE_CODE |-> "REFMB"]
      [] i = 3 -> [MERCHANT_CODE |-> "NAU", STATUS_CODE |-> "C", PAYMENT_REF |-> "R2", TRANSACTION_ID |-> 3,
                   PAYMENT_AMOUNT |-> <<"0", ".", "5">>, PAYMENT_TYPE_CODE |-> "MBWAY",
                   CARD_MASKED_PAN |-> ""]
      [] OTHER -> [MERCHANT_CODE |-> "NAU", STATUS_CODE |-> "C", PAYMENT_REF |-> "RX", TRANSACTION_ID |-> 4,
                   PAYMENT_AMOUNT |-> <<"2", "0", ".", "0", "0">>, PAYMENT_TYPE_CODE |-> "REFMB"]

RECURSIVE SortedRows(_, _)
\* the rows of the posted transactions with id >= i, in PAYMENT_REF order
SortedRows(posted, i) ==
    IF i \notin TxIds THEN <<>>
    ELSE (IF i \in posted THEN <<Tx(i)>> ELSE <<>>) \o SortedRows(posted, i + 1)

\* a page of a result set: OFFSET_ROWS rows skipped, at most NEXT_ROWS returned
Page(rows, offset_rows, next_rows) ==
    SubSeq(rows, offset_rows + 1,
           IF offset_rows + next_rows < Len(rows) THEN offset_rows + next_rows ELSE Len(rows))

\* "NEXT_ROWS": 2 of the search of handle_processor_response
search_next_rows == 2

\* BackOfficeSearchTransactions by PAYMENT_REF, NEXT_ROWS 2, OFFSET_ROWS 0
SearchByRef(posted, payment_ref) ==
    Page(SelectSeq(SortedRows(posted, 1), LAMBDA row : row.PAYMENT_REF = payment_ref),
         0, search_next_rows)

\* what one HTTP exchange with the gateway can come to: no response (the
\* request times out, the connection fails) or a response, of status 200 or
\* not, with a JSON body or not ("error_page": neither)
ApiOutcomes == {"ok", "timeout", "bad_json", "bad_status", "error_page", "connection_error"}

\* response.status_code
status_code(outcome) ==
    CASE outcome \in {"ok", "bad_json"} -> 200
      [] outcome = "bad_status" -> 500
      [] outcome = "error_page" -> 502

\* does response.json() parse the body
is_json(outcome) == outcome \in {"ok", "bad_status"}

\* the dictionary {}
EmptyDict == [dict |-> "empty"]

\* the JSON body of a response whose status is not 200
ErrorBody == [Message |-> "An error has occurred."]

\* the gateway's API methods
ApiUrls == {"Checkout", "BackOfficeSearchTransactions", "MarkTestPaymentAsPaid"}

\* record_processor_response: the new row of the PaymentProcessorResponse table
record_processor_response(response, transaction_id, basket) ==
    [response |-> response, transaction_id |-> transaction_id, basket |-> basket]

\* no response was received
\* an error message: its text and, for the messages that quote the parsed body
\* of a response (json.dumps of it), that body
Message(text) == [text |-> text, content |-> EmptyDict]

NoErrorResponse == [status_code |-> 0, data |-> EmptyDict]

\* _raise_api_error: the entry it records before it raises GatewayError(error);
\* what the gateway answered is part of it only when a response is passed
\* (has_response)
_raise_api_error(message, has_response, response_status_code, response_data, basket) ==
    LET error_response == IF has_response
                          THEN [status_code |-> response_status_code, data |-> response_data]
                          ELSE NoErrorResponse
        error == [message |-> message, response |-> error_response]
    IN [exc |-> "GatewayError", error |-> error,
        records |-> << record_processor_response(error, basket, basket) >>]

NoError == [message |-> Message(""), response |-> NoErrorResponse]

\* _make_api_json_request as it would be if the status were tested before the
\* body is parsed
_make_api_json_request_status_first(url, data, payload, basket, outcome) ==
    LET sent == IF basket # None
                THEN << record_processor_response([url |-> url, data |-> data], basket, basket) >>
                ELSE <<>>
        raised == CASE outcome = "timeout" ->
                         _raise_api_error(Message("API timeout"), FALSE, 0, EmptyDict, basket)
                    [] outcome \notin {"timeout", "connection_error"} /\ status_code(outcome) # 200 ->
                         _raise_api_error(Message("Invalid API response"), TRUE, status_code(outcome),
                                          ErrorBody, basket)
                    [] OTHER ->
                         _raise_api_error(Message("Could not parse JSON content from response"), TRUE,
                                          status_code(outcome), EmptyDict, basket)
    IN IF outcome = "connection_error"
       THEN [exc |-> "ConnectionError", message |-> "", data |-> <<>>, records |-> sent]
       ELSE IF outcome = "ok"
       THEN [exc |-> None, message |-> "", data |-> payload, records |-> sent]
       ELSE [exc |-> raised.exc, message |-> raised.error.message.text, data |-> <<>>,
             records |-> sent \o raised.records]

\* _make_api_json_request: with a basket, the request is recorded first; then
\* the parsed payload for a 200 answer with a JSON body; GatewayError, after
\* recording the error, for a timeout, for a body that does not parse and,
\* tested last, for a status other than 200; any other requests exception (a
\* connection failure) is not caught
_make_api_json_request(url, data, payload, basket, outcome) ==
    LET sent == IF basket # None
                THEN << record_processor_response([url |-> url, data |-> data], basket, basket) >>
                ELSE <<>>
        raised == CASE outcome = "timeout" ->
                         _raise_api_error(Message("API timeout"), FALSE, 0, EmptyDict, basket)
                    [] outcome \notin {"timeout", "connection_error"} /\ ~is_json(outcome) ->
                         _raise_api_error(Message("Could not parse JSON content from response"), TRUE,
                                          status_code(outcome), EmptyDict, basket)
                    [] OTHER ->
                         _raise_api_error(Message("Invalid API response"), TRUE, status_code(outcome),
                                          ErrorBody, basket)
    IN IF outcome = "connection_error"
       THEN [exc |-> "ConnectionError", message |-> "", data |-> <<>>, records |-> sent]
       ELSE IF outcome = "ok"
       THEN [exc |-> None, message |-> "", data |-> payload, records |-> sent]
       ELSE [exc |-> raised.exc, message |-> raised.error.message.text, data |-> <<>>,
             records |-> sent \o raised.records]

\* dict.get(key, default)
Get(payload, key, default) ==
    IF key \in DOMAIN payload THEN payload[key] ELSE default

\* the value of a decimal digit
DigitValue(c) ==
    CASE c = "0" -> 0 [] c = "1" -> 1 [] c = "2" -> 2 [] c = "3" -> 3 [] c = "4" -> 4
      [] c = "5" -> 5 [] c = "6" -> 6 [] c = "7" -> 7 [] c = "8" -> 8 [] c = "9" -> 9

RECURSIVE DigitsToInt(_)
DigitsToInt(digits) ==
    IF digits = <<>> THEN 0
    ELSE 10 * DigitsToInt(SubSeq(digits, 1, Len(digits) - 1)) + DigitValue(digits[Len(digits)])

\* Decimal(text) of a text of digits with at most one point: the digits as
\* the coefficient and the number of digits after the point as the negated
\* exponent, nothing rounded
Decimal(text) ==
    LET point == { i \in 1 .. Len(text) : text[i] = "." }
    IN [coefficient |-> DigitsToInt(SelectSeq(text, LAMBDA c : c # ".")),
        exponent |-> IF point = {} THEN 0
                     ELSE (CHOOSE i \in point : TRUE) - Len(text)]

NoHpr ==
    [transaction_id |-> 0, total |-> [coefficient |-> 0, exponent |-> 0],
     currency |-> None, card_number |-> None, card_type |-> None]

\* the double check as it would be if a first matching row were enough
confirmed_payed_on_paygate_first_row(search_response_data, basket) ==
    /\ Len(search_response_data) >= 1
    /\ Get(search_response_data[1], "MERCHANT_CODE", None) = merchant_code
    /\ Get(search_response_data[1], "STATUS_CODE", None) = "C"
    /\ Get(search_response_data[1], "PAYMENT_REF", None) = basket

\* handle_processor_response, the double check of the search answer: exactly
\* one row, whose merchant code, status and reference match
confirmed_payed_on_paygate(search_response_data, basket) ==
    /\ Len(search_response_data) = 1
    /\ Get(search_response_data[1], "MERCHANT_CODE", None) = merchant_code
    /\ Get(search_response_data[1], "STATUS_CODE", None) = "C"
    /\ Get(search_response_data[1], "PAYMENT_REF", None) = basket

\* the falsy values a field of a transaction can have
Falsy(v) == v = None \/ v = ""

\* the HandledProcessorResponse as it would be if CARD_MASKED_PAN were taken as
\* it comes, without the fall back to the payment type
HandledProcessorResponse_pan_as_is(paygate_transaction, basket) ==
    IF "PAYMENT_AMOUNT" \notin DOMAIN paygate_transaction
    THEN [exc |-> "TypeError", hpr |-> NoHpr]
    ELSE [exc |-> None,
          hpr |-> [transaction_id |-> Get(paygate_transaction, "TRANSACTION_ID", None),
                   total |-> Decimal(paygate_transaction.PAYMENT_AMOUNT),
                   currency |-> basket_currency(basket),
                   card_number |-> Get(paygate_transaction, "CARD_MASKED_PAN", None),
                   card_type |-> Get(paygate_transaction, "PAYMENT_TYPE_CODE", None)]]

\* handle_processor_response, the HandledProcessorResponse built from the
\* confirmed transaction; without PAYMENT_AMOUNT, Decimal(None) raises TypeError
HandledProcessorResponse(paygate_transaction, basket) ==
    LET card_type == Get(paygate_transaction, "PAYMENT_TYPE_CODE", None)
        card_number == Get(paygate_transaction, "CARD_MASKED_PAN", None)
    IN IF "PAYMENT_AMOUNT" \notin DOMAIN paygate_transaction
       THEN [exc |-> "TypeError", hpr |-> NoHpr]
       ELSE [exc |-> None,
             hpr |-> [transaction_id |-> Get(paygate_transaction, "TRANSACTION_ID", None),
                      total |-> Decimal(paygate_transaction.PAYMENT_AMOUNT),
                      currency |-> basket_currency(basket),
                      card_number |-> IF Falsy(card_number) THEN card_type ELSE card_number,
                      card_type |-> card_type]]

\* handle_processor_response from the answer of the search on: GatewayError
\* unless the double check passes, else the HandledProcessorResponse
handle_search_response_data(search_response_data, basket) ==
    IF ~confirmed_payed_on_paygate(search_response_data, basket)
    THEN [exc |-> "GatewayError", hpr |-> NoHpr]
    ELSE HandledProcessorResponse(search_response_data[1], basket)

(***************************************************************************)
(* Notifications.  A payload is a function from its field names to string  *)
(* values, read with Get as the code reads it with dict.get.               *)
(***************************************************************************)

\* bool(v) of a payload value: a JSON body (POST) carries true/false, a query
\* string (GET) carries text, and every non-empty text is true
Bool(method, v) ==
    IF method = "POST" THEN v = "true" ELSE v # ""

ServerPayloads ==
    { [payment_ref |-> r, success |-> "true", statusCode |-> "C"] : r \in Refs }
    \cup { [payment_ref |-> r] : r \in BasketRefs }
    \cup { [payment_ref |-> "R1", success |-> "false", statusCode |-> "C"],
           [payment_ref |-> "R1", success |-> "true", statusCode |-> "X"],
           [success |-> "true", statusCode |-> "C"] }

SuccessPayloads ==
    { [payment_ref |-> r, is_paid |-> "True", StatusCode |-> "C"] : r \in Refs }
    \cup { [payment_ref |-> "R1"],
           [is_paid |-> "True", StatusCode |-> "C"] }

RedirectPayloads == { [payment_ref |-> "R1"], [reason |-> "user"] }

NoPayload == [none |-> "none"]
\* the host's URL of a view
reverse(viewname) ==
    CASE viewname = "checkout:error" -> "/checkout/error/"
      [] viewname = "checkout:cancel-checkout" -> "/checkout/cancel-checkout/"
      [] viewname = "checkout:receipt" -> "/checkout/receipt/"
      [] viewname = "ecommerce_plugin_paygate:callback_server" ->
             "/payment/paygate/callback/server/"

NoUrl == [root |-> None, path |-> None, order_number |-> None]

\* get_ecommerce_url(path): the path under the root of the ecommerce site
get_ecommerce_url(path) ==
    [root |-> "ecommerce_root", path |-> path, order_number |-> None]

\* get_receipt_page_url(site_configuration, order_number, ...): the receipt
\* page of the order number
get_receipt_page_url(order_number) ==
    [root |-> "ecommerce_root", path |-> reverse("checkout:receipt"),
     order_number |-> order_number]

NoResp == [status |-> 0, body |-> "", url |-> NoUrl]

HttpResponse(body, status) == [status |-> status, body |-> body, url |-> NoUrl]
HttpResponseServerError(body) == [status |-> 500, body |-> body, url |-> NoUrl]
redirect(url) == [status |-> 302, body |-> "", url |-> url]
HttpResponseNotAllowed == [status |-> 405, body |-> "", url |-> NoUrl]

\* an exception that leaves the view: the host answers 500
UnhandledException(name) == [status |-> 500, body |-> name, url |-> NoUrl]

Slots == {1, 2}

IdleReq ==
    [pc |-> "idle", kind |-> None, origin |-> None, payload |-> NoPayload,
     xff |-> <<>>, remote_addr |-> 0, basket |-> None, hpr |-> NoHpr,
     order |-> None, calls |-> 0, created |-> FALSE, post_order |-> None,
     resp |-> NoResp, records |-> <<>>]

\* the page size of the sweep (next_rows)
NextRows == 2

\* no sweep is running; of a run, searches counts its searches, last tells
\* what was done with the transaction before the current one, again tells
\* that it was started after a run that finished, and records are the rows it
\* wrote to the PaymentProcessorResponse table
IdleSweep ==
    [pc |-> "idle", offset_rows |-> 0, response_data |-> <<>>, i |-> 0,
     slot |-> 0, result |-> None, searches |-> 0, last |-> None, again |-> FALSE,
     records |-> <<>>]

\* no function is called on its own
NoCall == [fn |-> None]

VARIABLES
    configuration,      \* the configuration of the payment processor
    order_accessor,     \* does the host's Order model give Basket an `order` attribute
    paygate,            \* ids of the transactions the gateway holds
    orders,             \* the Order table, in creation order
    req,                \* the requests being handled, one per worker slot
    sweep,              \* the run of retry_baskets_payed_in_paygate, if any
    call                \* a function of the plugin called on its own, with its arguments and result

vars == <<configuration, order_accessor, paygate, orders, req, sweep, call>>

\* callback_server_allowed_networks; not configured, it is empty
allowed_networks ==
    Get(configuration, "callback_server_allowed_networks", <<>>)

\* error_url as it would be if the configured error_path were not read
error_url_unconfigured ==
    get_ecommerce_url(reverse("checkout:error"))

\* error_url: the configured error_path, by default the host's error page
error_url ==
    get_ecommerce_url(Get(configuration, "error_path", reverse("checkout:error")))

\* failure_url: the same as error_url
failure_url == error_url

\* cancel_url: the configured cancel_checkout_path, by default the host's
\* cancel-checkout page
cancel_url ==
    get_ecommerce_url(Get(configuration, "cancel_checkout_path",
                          reverse("checkout:cancel-checkout")))

\* Order.objects.filter(number=...) as a list
OrdersOf(number) == SelectSeq(orders, LAMBDA o : o.number = number)

\* utils.order_exist
order_exist(basket) == Len(OrdersOf(basket)) > 0

\* hasattr(basket, "order"): the attribute is the reverse accessor of the
\* host's Order model; with a one-to-one accessor it is present exactly when an
\* order is attached to the basket, with a many-to-one accessor (order_set)
\* the name `order` is never present
hasattr_order(basket) ==
    order_accessor /\ order_exist(basket)

\* handle_processor_response(response, basket): nothing of `response` is read;
\* the gateway is searched for the basket's reference and the answer is double
\* checked.  `calls` counts the gateway calls made.
handle_processor_response(basket, outcome) ==
    IF basket = None
    THEN [exc |-> "AttributeError", hpr |-> NoHpr, calls |-> 0, records |-> <<>>]
    ELSE LET search_response_data ==
                 _make_api_json_request("BackOfficeSearchTransactions",
                                        [PAYMENT_REF |-> basket],
                                        SearchByRef(paygate, basket), basket, outcome)
         IN IF search_response_data.exc # None
            THEN [exc |-> search_response_data.exc, hpr |-> NoHpr, calls |-> 1,
                  records |-> search_response_data.records]
            ELSE LET handled == handle_search_response_data(search_response_data.data, basket)
                 IN [exc |-> handled.exc, hpr |-> handled.hpr, calls |-> 1,
                     records |-> search_response_data.records]

\* EdxOrderPlacementMixin.handle_payment: handle_processor_response, then the
\* payment source and event are kept on the view until the order is placed
handle_payment(basket, outcome) == handle_processor_response(basket, outcome)

\* with transaction.atomic(): what the block wrote to the database stays only
\* when the block ends without an exception
atomic(block) ==
    IF block.exc # None THEN [block EXCEPT !.records = <<>>] ELSE block

\* super().create_order: the host places the order; the order number is unique
\* in the Order table, a second order with the same number is refused
place_order(basket, hpr) ==
    IF order_exist(basket)
    THEN [exc |-> "ValueError", orders |-> orders]
    ELSE [exc |-> None,
          orders |-> Append(orders, [number |-> basket, basket |-> basket,
                                     source |-> hpr.transaction_id])]

\* create_order as it would be if the order were stored without the refusal of
\* a second order with the same number
create_order_unchecked(basket, hpr) ==
    LET address_for_billing == _get_user_billing_address(basket)
    IN IF address_for_billing = None
       THEN [exc |-> "AttributeError", orders |-> orders, returned |-> None]
       ELSE [exc |-> None,
             orders |-> Append(orders, [number |-> basket, basket |-> basket,
                                        source |-> hpr.transaction_id]),
             returned |-> None]

\* PaygateCallbackBaseResponseView.create_order: copies the owner's default
\* billing address (reading .title of None raises AttributeError), places the
\* order, and returns nothing
create_order(basket, hpr) ==
    LET address_for_billing == _get_user_billing_address(basket)
    IN IF address_for_billing = None
       THEN [exc |-> "AttributeError", orders |-> orders, returned |-> None]
       ELSE LET placed == place_order(basket, hpr)
            IN [exc |-> placed.exc, orders |-> placed.orders, returned |-> None]

\* self.handle_post_order(order) in its try block: the host reads the order's
\* lines and basket, which raises AttributeError for None; the views catch and
\* log the exception and go on to their response
handle_post_order(order) ==
    IF order = None THEN "AttributeError" ELSE "handled"

\* get_basket_and_record_response: the basket of the payload's payment_ref and
\* the record of the payload; (None, None) when payment_ref is missing
get_basket_and_record_response(payload) ==
    LET transaction_id == Get(payload, "payment_ref", "")
    IN IF transaction_id # ""
       THEN LET basket == get_basket_from_payment_ref(transaction_id)
            IN [basket |-> basket, ppr |-> "ppr",
                records |-> << record_processor_response(payload, transaction_id, basket) >>]
       ELSE [basket |-> None, ppr |-> None, records |-> <<>>]

Finish(r, resp) == [r EXCEPT !.pc = "done", !.resp = resp]

Init ==
    /\ configuration \in Configurations
    /\ order_accessor \in BOOLEAN
    /\ paygate = {}
    /\ orders = <<>>
    /\ req = [s \in Slots |-> IdleReq]
    /\ sweep = IdleSweep
    /\ call = NoCall

\* the gateway completes a transaction of its catalogue
GatewayCompletes(t) ==
    /\ t \notin paygate
    /\ paygate' = paygate \cup {t}
    /\ UNCHANGED <<call, configuration, order_accessor, orders, req, sweep>>

\* worker s is free; when requests are served one at a time, no other request
\* is being handled either
Free(s, one_at_a_time) ==
    /\ req[s].pc = "idle"
    /\ one_at_a_time => \A t \in Slots : req[t].pc = "idle"

NewReq(kind, origin, payload, xff, remote_addr) ==
    [IdleReq EXCEPT !.pc = "received", !.kind = kind, !.origin = origin,
                    !.payload = payload, !.xff = xff, !.remote_addr = remote_addr]

\* a request of the gateway or of a browser reaches a free worker
Arrive(s, one_at_a_time, kind, payload, xff, remote_addr) ==
    /\ Free(s, one_at_a_time)
    /\ sweep.pc # "waiting" \/ ~one_at_a_time
    /\ req' = [req EXCEPT ![s] = NewReq(kind, "client", payload, xff, remote_addr)]
    /\ UNCHANGED <<call, configuration, order_accessor, paygate, orders, sweep>>

\* PaygateCallbackServerResponseView.post, up to the payload check
ServerPostReceive(s) ==
    /\ req[s].pc = "received"
    /\ req[s].kind = "server"
    /\ LET r == req[s]
           allowed == IF allowed_networks = <<>>
                      THEN "True"
                      ELSE allowed_client_ip(get_client_ip(r.xff, r.remote_addr),
                                             allowed_networks)
           got == get_basket_and_record_response(r.payload)
           payed_with_success ==
               /\ Bool("POST", Get(r.payload, "success", ""))
               /\ Get(r.payload, "statusCode", "") = "C"
       IN req' = [req EXCEPT ![s] =
            IF allowed = "TypeError"
            THEN Finish(r, UnhandledException("TypeError"))
            ELSE IF allowed = "False"
            THEN Finish(r, HttpResponse("Unauthorized invalid allowed ip address", 401))
            ELSE IF got.ppr = None
            THEN Finish(r, UnhandledException("AttributeError"))
            ELSE IF ~payed_with_success
            THEN Finish([r EXCEPT !.records = got.records],
                        HttpResponse("Incorrect success and status code", 412))
            ELSE [r EXCEPT !.pc = "pay", !.basket = got.basket, !.records = got.records]]
    /\ UNCHANGED <<call, configuration, order_accessor, paygate, orders, sweep>>

\* PaygateCallbackServerResponseView.post, handle_payment in its atomic block,
\* the exchange with the gateway coming to outcome
ServerPostHandlePaymentOutcome(s, outcome) ==
    /\ req[s].pc = "pay"
    /\ req[s].kind = "server"
    /\ LET r == req[s]
           handled == atomic(handle_payment(r.basket, outcome))
           rc == [r EXCEPT !.calls = r.calls + handled.calls,
                           !.records = r.records \o handled.records]
       IN req' = [req EXCEPT ![s] =
            IF handled.exc = "GatewayError"
            THEN Finish(rc, HttpResponseServerError("Error while handling payment - payment error"))
            ELSE IF handled.exc # None
            THEN IF r.basket = None
                 THEN Finish(rc, UnhandledException("AttributeError"))
                 ELSE Finish(rc, HttpResponseServerError("Error while handling payment - other error"))
            ELSE [rc EXCEPT !.pc = "check", !.hpr = handled.hpr]]
    /\ UNCHANGED <<call, configuration, order_accessor, paygate, orders, sweep>>

ServerPostHandlePayment(s) ==
    \E outcome \in ApiOutcomes : ServerPostHandlePaymentOutcome(s, outcome)

\* PaygateCallbackServerResponseView.post, the test of hasattr(basket, "order")
ServerPostCheckOrder(s) ==
    /\ req[s].pc = "check"
    /\ req[s].kind = "server"
    /\ LET r == req[s]
       IN req' = [req EXCEPT ![s] =
            IF ~hasattr_order(r.basket)
            THEN Finish(r, HttpResponse("Received server callback with success", 200))
            ELSE [r EXCEPT !.pc = "create"]]
    /\ UNCHANGED <<call, configuration, order_accessor, paygate, orders, sweep>>

\* a server callback that acknowledges the notification when create_order
\* raises
ServerPostCreateOrder_acknowledging(s) ==
    /\ req[s].pc = "create"
    /\ req[s].kind = "server"
    /\ LET r == req[s]
           made == create_order(r.basket, r.hpr)
       IN /\ orders' = made.orders
          /\ req' = [req EXCEPT ![s] =
               IF made.exc # None
               THEN Finish(r, HttpResponse("Received server callback with success", 200))
               ELSE Finish([r EXCEPT !.created = TRUE, !.order = made.returned,
                                     !.post_order = handle_post_order(made.returned)],
                           HttpResponse("Received server callback with success", 200))]
    /\ UNCHANGED <<call, configuration, order_accessor, paygate, sweep>>

\* PaygateCallbackServerResponseView.post, create_order and handle_post_order
ServerPostCreateOrder(s) ==
    /\ req[s].pc = "create"
    /\ req[s].kind = "server"
    /\ LET r == req[s]
           made == create_order(r.basket, r.hpr)
       IN /\ orders' = made.orders
          /\ req' = [req EXCEPT ![s] =
               IF made.exc # None
               THEN Finish(r, HttpResponseServerError("Error while creating order"))
               ELSE Finish([r EXCEPT !.created = TRUE, !.order = made.returned,
                                     !.post_order = handle_post_order(made.returned)],
                           HttpResponse("Received server callback with success", 200))]
    /\ UNCHANGED <<call, configuration, order_accessor, paygate, sweep>>

\* a server callback that takes a GET for a notification and acknowledges it
ServerGet_acknowledging(s) ==
    /\ req[s].pc = "received"
    /\ req[s].kind = "server_get"
    /\ req' = [req EXCEPT ![s] =
                 Finish(req[s], HttpResponse("Received server callback with success", 200))]
    /\ UNCHANGED <<call, configuration, order_accessor, paygate, orders, sweep>>

\* PaygateCallbackServerResponseView.get: the GET is not allowed
ServerGet(s) ==
    /\ req[s].pc = "received"
    /\ req[s].kind = "server_get"
    /\ req' = [req EXCEPT ![s] = Finish(req[s], HttpResponseNotAllowed)]
    /\ UNCHANGED <<call, configuration, order_accessor, paygate, orders, sweep>>

\* PaygateCallbackSuccessResponseView.get, up to the payload check
SuccessGetReceive(s) ==
    /\ req[s].pc = "received"
    /\ req[s].kind = "success"
    /\ LET r == req[s]
           got == get_basket_and_record_response(r.payload)
           payed_with_success ==
               /\ Bool("GET", Get(r.payload, "is_paid", ""))
               /\ Get(r.payload, "StatusCode", "") = "C"
           rb == [r EXCEPT !.basket = got.basket, !.records = got.records]
       IN req' = [req EXCEPT ![s] =
            IF got.basket = None
            THEN Finish(rb, redirect(failure_url))
            ELSE IF hasattr_order(got.basket)
            THEN Finish(rb, redirect(get_receipt_page_url(got.basket)))
            ELSE IF ~payed_with_success
            THEN Finish(rb, HttpResponse("Incorrect success and status code", 412))
            ELSE [rb EXCEPT !.pc = "pay"]]
    /\ UNCHANGED <<call, configuration, order_accessor, paygate, orders, sweep>>

\* PaygateCallbackSuccessResponseView.get, handle_payment in its atomic block,
\* the exchange with the gateway coming to outcome
SuccessGetHandlePaymentOutcome(s, outcome) ==
    /\ req[s].pc = "pay"
    /\ req[s].kind = "success"
    /\ LET r == req[s]
           handled == atomic(handle_payment(r.basket, outcome))
           rc == [r EXCEPT !.calls = r.calls + handled.calls,
                           !.records = r.records \o handled.records]
       IN req' = [req EXCEPT ![s] =
            IF handled.exc = "GatewayError"
            THEN Finish(rc, redirect(error_url))
            ELSE IF handled.exc # None
            THEN Finish(rc, redirect(get_receipt_page_url(r.basket)))
            ELSE [rc EXCEPT !.pc = "create", !.hpr = handled.hpr]]
    /\ UNCHANGED <<call, configuration, order_accessor, paygate, orders, sweep>>

SuccessGetHandlePayment(s) ==
    \E outcome \in ApiOutcomes : SuccessGetHandlePaymentOutcome(s, outcome)

\* PaygateCallbackSuccessResponseView.get, create_order and handle_post_order
SuccessGetCreateOrder(s) ==
    /\ req[s].pc = "create"
    /\ req[s].kind = "success"
    /\ LET r == req[s]
           made == create_order(r.basket, r.hpr)
       IN /\ orders' = made.orders
          /\ req' = [req EXCEPT ![s] =
               IF made.exc # None
               THEN Finish(r, redirect(get_receipt_page_url(r.basket)))
               ELSE Finish([r EXCEPT !.created = TRUE, !.order = made.returned,
                                     !.post_order = handle_post_order(made.returned)],
                           redirect(get_receipt_page_url(r.basket)))]
    /\ UNCHANGED <<call, configuration, order_accessor, paygate, sweep>>

\* PaygateCallbackRedirectResponseView.get of the cancel and failure views
RedirectGet(s) ==
    /\ req[s].pc = "received"
    /\ req[s].kind \in {"cancel", "failure"}
    /\ LET r == req[s]
           got == get_basket_and_record_response(r.payload)
       IN req' = [req EXCEPT ![s] =
            Finish([r EXCEPT !.basket = got.basket, !.records = got.records],
                   redirect(IF r.kind = "cancel" THEN cancel_url ELSE failure_url))]
    /\ UNCHANGED <<call, configuration, order_accessor, paygate, orders, sweep>>

\* the response of a request of the gateway or of a browser is delivered
Release(s) ==
    /\ req[s].pc = "done"
    /\ req[s].origin = "client"
    /\ req' = [req EXCEPT ![s] = IdleReq]
    /\ UNCHANGED <<call, configuration, order_accessor, paygate, orders, sweep>>

(***************************************************************************)
(* The sweep: retry_baskets_payed_in_paygate, one page per call of itself. *)
(***************************************************************************)

\* the management command starts a sweep over a window that holds every
\* transaction of the gateway
SweepStart ==
    /\ sweep.pc = "idle"
    /\ sweep' = [IdleSweep EXCEPT !.pc = "search"]
    /\ UNCHANGED <<call, configuration, order_accessor, paygate, orders, req>>

\* the management command is run once more after a run that has ended
SweepStartAgain ==
    /\ sweep.pc = "idle"
    /\ sweep.result # None
    /\ sweep' = [IdleSweep EXCEPT !.pc = "search", !.again = TRUE]
    /\ UNCHANGED <<call, configuration, order_accessor, paygate, orders, req>>

\* retry_baskets_payed_in_paygate: the search of one page, the exchange with
\* the gateway coming to outcome; an error of the call ends the sweep
SweepSearchOutcome(outcome) ==
    /\ sweep.pc = "search"
    /\ LET response_data ==
               _make_api_json_request(
                   "BackOfficeSearchTransactions", [OFFSET_ROWS |-> sweep.offset_rows],
                   Page(SortedRows(paygate, 1), sweep.offset_rows, NextRows), None, outcome)
           searched == [sweep EXCEPT !.searches = sweep.searches + 1,
                                     !.records = sweep.records \o response_data.records]
       IN sweep' =
            IF response_data.exc # None
            THEN [searched EXCEPT !.pc = "idle", !.result = "raised"]
            ELSE [searched EXCEPT !.pc = "iterate",
                                  !.response_data = response_data.data, !.i = 1]
    /\ UNCHANGED <<call, configuration, order_accessor, paygate, orders, req>>

SweepSearch == \E outcome \in ApiOutcomes : SweepSearchOutcome(outcome)

\* send_callback_to_itself_to_retry: the payload of the self-notification
RetryPayload(basket) ==
    [payment_ref |-> basket, statusCode |-> "C", success |-> "true",
     retry_baskets_payed_in_paygate |-> "true"]

\* retry_baskets_payed_in_paygate: a transaction of the page without basket or
\* with an order is skipped
SweepSkip ==
    /\ sweep.pc = "iterate"
    /\ sweep.i <= Len(sweep.response_data)
    /\ LET basket == get_basket_from_payment_ref(sweep.response_data[sweep.i].PAYMENT_REF)
       IN \/ basket = None
          \/ basket # None /\ order_exist(basket)
    /\ sweep' = [sweep EXCEPT !.i = sweep.i + 1, !.last = "skipped"]
    /\ UNCHANGED <<call, configuration, order_accessor, paygate, orders, req>>

\* a sweep that posts the self-notification for every transaction with a basket
SweepSend_with_order_too(s, one_at_a_time) ==
    /\ sweep.pc = "iterate"
    /\ sweep.i <= Len(sweep.response_data)
    /\ Free(s, one_at_a_time)
    /\ LET basket == get_basket_from_payment_ref(sweep.response_data[sweep.i].PAYMENT_REF)
       IN /\ basket # None
          /\ \E remote_addr \in RemoteAddrs :
               req' = [req EXCEPT ![s] =
                         NewReq("server", "sweep", RetryPayload(basket), <<>>, remote_addr)]
    /\ sweep' = [sweep EXCEPT !.pc = "waiting", !.slot = s]
    /\ UNCHANGED <<call, configuration, order_accessor, paygate, orders>>

\* retry_baskets_payed_in_paygate: for a transaction with a basket and no order
\* the self-notification is posted to the server callback
SweepSend(s, one_at_a_time) ==
    /\ sweep.pc = "iterate"
    /\ sweep.i <= Len(sweep.response_data)
    /\ Free(s, one_at_a_time)
    /\ LET basket == get_basket_from_payment_ref(sweep.response_data[sweep.i].PAYMENT_REF)
       IN /\ basket # None
          /\ ~order_exist(basket)
          /\ \E remote_addr \in RemoteAddrs :
               req' = [req EXCEPT ![s] =
                         NewReq("server", "sweep", RetryPayload(basket), <<>>, remote_addr)]
    /\ sweep' = [sweep EXCEPT !.pc = "waiting", !.slot = s]
    /\ UNCHANGED <<call, configuration, order_accessor, paygate, orders>>

\* a sweep that stays on the transaction after the response
SweepReceive_same_transaction ==
    /\ sweep.pc = "waiting"
    /\ req[sweep.slot].pc = "done"
    /\ req' = [req EXCEPT ![sweep.slot] = IdleReq]
    /\ sweep' = [sweep EXCEPT !.pc = "iterate", !.slot = 0, !.last = "sent"]
    /\ UNCHANGED <<call, configuration, order_accessor, paygate, orders>>

\* send_callback_to_itself_to_retry: the response of the self-notification
\* arrives; whatever its status, the sweep goes on with the next transaction
SweepReceive ==
    /\ sweep.pc = "waiting"
    /\ req[sweep.slot].pc = "done"
    /\ req' = [req EXCEPT ![sweep.slot] = IdleReq]
    /\ sweep' = [sweep EXCEPT !.pc = "iterate", !.i = sweep.i + 1, !.slot = 0,
                              !.last = "sent"]
    /\ UNCHANGED <<call, configuration, order_accessor, paygate, orders>>

\* send_callback_to_itself_to_retry: requests.post raises (timeout); nothing
\* catches it and the sweep ends, while the server goes on with the request
SweepTimeout ==
    /\ sweep.pc = "waiting"
    /\ req' = [req EXCEPT ![sweep.slot].origin = "client"]
    /\ sweep' = [sweep EXCEPT !.pc = "idle", !.slot = 0, !.result = "raised",
                              !.last = None]
    /\ UNCHANGED <<call, configuration, order_accessor, paygate, orders>>

\* a sweep that asks for the next page after every page that holds a row
SweepPageEnd_until_empty ==
    /\ sweep.pc = "iterate"
    /\ sweep.i > Len(sweep.response_data)
    /\ sweep' =
         IF Len(sweep.response_data) > 0
         THEN [sweep EXCEPT !.pc = "search", !.offset_rows = sweep.offset_rows + NextRows,
                            !.response_data = <<>>, !.i = 0, !.last = None]
         ELSE [sweep EXCEPT !.pc = "idle", !.response_data = <<>>, !.i = 0,
                            !.result = "finished", !.last = None]
    /\ UNCHANGED <<call, configuration, order_accessor, paygate, orders, req>>

\* retry_baskets_payed_in_paygate: after the page, the next page if this one
\* was full, else the end
SweepPageEnd ==
    /\ sweep.pc = "iterate"
    /\ sweep.i > Len(sweep.response_data)
    /\ sweep' =
         IF Len(sweep.response_data) = NextRows
         THEN [sweep EXCEPT !.pc = "search", !.offset_rows = sweep.offset_rows + NextRows,
                            !.response_data = <<>>, !.i = 0, !.last = None]
         ELSE [sweep EXCEPT !.pc = "idle", !.response_data = <<>>, !.i = 0,
                            !.result = "finished", !.last = None]
    /\ UNCHANGED <<call, configuration, order_accessor, paygate, orders, req>>

(***************************************************************************)
(* Specifications.                                                         *)
(***************************************************************************)

\* the steps of the handlers and of the sweep
Handle(s) ==
    \/ ServerPostReceive(s)
    \/ ServerPostHandlePayment(s)
    \/ ServerPostCheckOrder(s)
    \/ ServerPostCreateOrder(s)
    \/ SuccessGetReceive(s)
    \/ SuccessGetHandlePayment(s)
    \/ SuccessGetCreateOrder(s)
    \/ RedirectGet(s)
    \/ Release(s)

SweepStep ==
    \/ SweepStart
    \/ SweepSearch
    \/ SweepSkip
    \/ SweepReceive
    \/ SweepTimeout
    \/ SweepPageEnd

\* the query of a GET to the server callback that carries what a confirming
\* notification carries
ConfirmingServerQuery == [payment_ref |-> "R1", success |-> "true", statusCode |-> "C"]

\* requests are served one at a time by one worker
Next ==
    \/ \E t \in TxIds : GatewayCompletes(t)
    \/ \E p \in ServerPayloads, c \in ClientAddrs :
           Arrive(1, TRUE, "server", p, c[1], c[2])
    \/ \E p \in SuccessPayloads : Arrive(1, TRUE, "success", p, <<>>, 1)
    \/ \E p \in RedirectPayloads, k \in {"cancel", "failure"} : Arrive(1, TRUE, k, p, <<>>, 1)
    \/ Arrive(1, TRUE, "server_get", ConfirmingServerQuery, <<>>, 1)
    \/ Handle(1)
    \/ ServerGet(1)
    \/ SweepSend(1, TRUE)
    \/ SweepStep

Spec == Init /\ [][Next]_vars

\* the workers handle requests concurrently, their steps interleaved with each
\* other and with the steps of the sweep; the notifications are the confirming
\* ones of R1, on a site without allow-list
InitConcurrent ==
    /\ Init
    /\ allowed_networks = <<>>

NextConcurrent ==
    \/ \E t \in TxIds \ {4} : GatewayCompletes(t)
    \/ \E s \in Slots :
           Arrive(s, FALSE, "server",
                  [payment_ref |-> "R1", success |-> "true", statusCode |-> "C"], <<>>, 6)
    \/ \E s \in Slots :
           Arrive(s, FALSE, "success",
                  [payment_ref |-> "R1", is_paid |-> "True", StatusCode |-> "C"], <<>>, 1)
    \/ \E s \in Slots : Arrive(s, FALSE, "cancel", [payment_ref |-> "R1"], <<>>, 1)
    \/ \E s \in Slots : Handle(s)
    \/ \E s \in Slots : SweepSend(s, FALSE)
    \/ SweepStep

SpecConcurrent == InitConcurrent /\ [][NextConcurrent]_vars

\* the sweep run again and again over a window whose transactions do not
\* change, while the gateway and a browser may come with the confirming
\* notifications of R1; requests are served one at a time
ConfirmingServerPayload == [payment_ref |-> "R1", success |-> "true", statusCode |-> "C"]

ConfirmingSuccessPayload == [payment_ref |-> "R1", is_paid |-> "True", StatusCode |-> "C"]

InitSweep ==
    /\ configuration \in Configurations
    /\ order_accessor \in BOOLEAN
    /\ paygate \in SUBSET TxIds
    /\ orders = <<>>
    /\ req = [s \in Slots |-> IdleReq]
    /\ sweep = IdleSweep
    /\ call = NoCall

\* the worker takes the next step of the request it handles
HandlerStep ==
    \/ ServerPostReceive(1)
    \/ ServerPostHandlePayment(1)
    \/ ServerPostCheckOrder(1)
    \/ ServerPostCreateOrder(1)
    \/ SuccessGetReceive(1)
    \/ SuccessGetHandlePayment(1)
    \/ SuccessGetCreateOrder(1)
    \/ Release(1)

NextSweep ==
    \/ Arrive(1, TRUE, "server", ConfirmingServerPayload, <<>>, 6)
    \/ Arrive(1, TRUE, "success", ConfirmingSuccessPayload, <<>>, 1)
    \/ HandlerStep
    \/ SweepStart
    \/ SweepStartAgain
    \/ SweepSearch
    \/ SweepSkip
    \/ SweepSend(1, TRUE)
    \/ SweepReceive
    \/ SweepTimeout
    \/ SweepPageEnd

SpecSweep == InitSweep /\ [][NextSweep]_vars

\* the recovery of a payment by the sweep when nothing fails: the gateway
\* answers every search, the server callback answers the sweep in time, on a
\* site without allow-list, and the command is run again after every run
InitRecovery ==
    /\ InitSweep
    /\ allowed_networks = <<>>

NextRecovery ==
    \/ Arrive(1, TRUE, "server", ConfirmingServerPayload, <<>>, 6)
    \/ Arrive(1, TRUE, "success", ConfirmingSuccessPayload, <<>>, 1)
    \/ ServerPostReceive(1)
    \/ ServerPostHandlePaymentOutcome(1, "ok")
    \/ ServerPostCheckOrder(1)
    \/ ServerPostCreateOrder(1)
    \/ SuccessGetReceive(1)
    \/ SuccessGetHandlePaymentOutcome(1, "ok")
    \/ SuccessGetCreateOrder(1)
    \/ Release(1)
    \/ SweepStart
    \/ SweepSearchOutcome("ok")
    \/ SweepSkip
    \/ SweepSend(1, TRUE)
    \/ SweepReceive
    \/ SweepPageEnd

FairRecovery ==
    /\ WF_vars(SweepStart \/ SweepSearchOutcome("ok") \/ SweepSkip \/ SweepReceive
                  \/ SweepPageEnd)
    /\ WF_vars(ServerPostReceive(1) \/ ServerPostHandlePaymentOutcome(1, "ok")
                  \/ ServerPostCheckOrder(1) \/ ServerPostCreateOrder(1)
                  \/ SuccessGetReceive(1) \/ SuccessGetHandlePaymentOutcome(1, "ok")
                  \/ SuccessGetCreateOrder(1) \/ Release(1))
    /\ SF_vars(SweepSend(1, TRUE))

\* the command is run whenever no sweep is running, a sweep that runs takes
\* its next step, the worker the next step of its request, and the request
\* that the sweep posts is taken up by the worker
SpecRecovery == InitRecovery /\ [][NextRecovery]_vars /\ FairRecovery

\* what comes after a cancel or failure redirect of R1: a browser is sent back
\* by the gateway to the cancel or to the failure view, the second worker
\* processes that redirect and holds its answer, and only then do the
\* confirming notifications of R1 arrive at the first worker and does the
\* command start a sweep, on a site without allow-list
RedirectProcessed(basket) ==
    /\ req[2].pc = "done"
    /\ req[2].kind \in {"cancel", "failure"}
    /\ req[2].basket = basket

InitAfterRedirect ==
    /\ Init
    /\ allowed_networks = <<>>

NextAfterRedirect ==
    \/ \E t \in {1, 2} : GatewayCompletes(t)
    \/ \E k \in {"cancel", "failure"} : Arrive(2, FALSE, k, [payment_ref |-> "R1"], <<>>, 1)
    \/ RedirectGet(2)
    \/ RedirectProcessed("R1") /\ Arrive(1, FALSE, "server", ConfirmingServerPayload, <<>>, 6)
    \/ RedirectProcessed("R1") /\ Arrive(1, FALSE, "success", ConfirmingSuccessPayload, <<>>, 1)
    \/ HandlerStep
    \/ RedirectProcessed("R1") /\ SweepStart
    \/ SweepSearch
    \/ SweepSkip
    \/ SweepSend(1, FALSE)
    \/ SweepReceive
    \/ SweepTimeout
    \/ SweepPageEnd

SpecAfterRedirect == InitAfterRedirect /\ [][NextAfterRedirect]_vars

(***************************************************************************)
(* The functions of the plugin called on their own, on arguments drawn     *)
(* from bounded sets.                                                      *)
(***************************************************************************)

\* the most networks of an allow-list passed to allowed_client_ip
MaxNetworks == 2

Addresses == 0 .. (2 ^ AddressBits - 1)

\* the networks of the allow-lists: the networks at the addresses 0, 2, 3 and
\* 6 that ip_network accepts (no host bit of the address is set); a single
\* address is the network of prefix length AddressBits
Networks ==
    { net \in [addr : {0, 2, 3, 6}, prefixlen : 1 .. AddressBits] :
          net.addr % (2 ^ (AddressBits - net.prefixlen)) = 0 }

\* the non-empty lists of at most MaxNetworks networks
NetworkLists == UNION { [1 .. n -> Networks] : n \in 1 .. MaxNetworks }

AllowedClientIpCalls ==
    { [fn |-> "allowed_client_ip", pc |-> "called", client_ip |-> ip,
       allowed_networks |-> networks, result |-> None] :
          ip \in Addresses, networks \in NetworkLists }

\* allowed_client_ip(client_ip, allowed_networks) is evaluated
CallAllowedClientIp ==
    /\ call.fn = "allowed_client_ip"
    /\ call.pc = "called"
    /\ call' = [call EXCEPT !.pc = "returned",
                            !.result = allowed_client_ip(call.client_ip,
                                                         call.allowed_networks)]
    /\ UNCHANGED <<configuration, order_accessor, paygate, orders, req, sweep>>

\* the transactions the patched search returns: every combination of merchant
\* code, status and reference, each with three sets of payment details (the
\* card mask set, empty and absent), and the bare transactions of
\* test_retry_baskets_payed_in_paygate
TransactionsUnderTest ==
    [MERCHANT_CODE : {"NAU", "OTHER"}, STATUS_CODE : {"C", "P"}, PAYMENT_REF : BasketRefs,
     TRANSACTION_ID : {1}, PAYMENT_AMOUNT : {<<"2", "0", ".", "0", "0">>},
     PAYMENT_TYPE_CODE : {"REFMB"}, CARD_MASKED_PAN : {"1234"}]
    \cup
    [MERCHANT_CODE : {"NAU", "OTHER"}, STATUS_CODE : {"C", "P"}, PAYMENT_REF : BasketRefs,
     TRANSACTION_ID : {2}, PAYMENT_AMOUNT : {<<"0", ".", "5">>},
     PAYMENT_TYPE_CODE : {"VISA"}, CARD_MASKED_PAN : {""}]
    \cup
    [MERCHANT_CODE : {"NAU", "OTHER"}, STATUS_CODE : {"C", "P"}, PAYMENT_REF : BasketRefs,
     TRANSACTION_ID : {3}, PAYMENT_AMOUNT : {<<"7">>},
     PAYMENT_TYPE_CODE : {"MBWAY"}]
    \cup
    { [MERCHANT_CODE |-> "NAU", STATUS_CODE |-> "C", PAYMENT_REF |-> r] : r \in BasketRefs }

\* handle_processor_response(response, basket) with _make_api_json_request
\* patched to return return_value, of at most search_next_rows transactions
HandleProcessorResponseCalls ==
    { [fn |-> "handle_processor_response", pc |-> "called", basket |-> basket,
       return_value |-> rows, result |-> None] :
          basket \in BasketRefs,
          rows \in UNION { [1 .. n -> TransactionsUnderTest] : n \in 0 .. search_next_rows } }

\* handle_processor_response is evaluated on the patched answer
CallHandleProcessorResponse ==
    /\ call.fn = "handle_processor_response"
    /\ call.pc = "called"
    /\ call' = [call EXCEPT !.pc = "returned",
                            !.result = handle_search_response_data(call.return_value,
                                                                   call.basket)]
    /\ UNCHANGED <<configuration, order_accessor, paygate, orders, req, sweep>>

\* the exchanges in which the gateway answers
Responses == ApiOutcomes \ {"timeout", "connection_error"}

\* the data posted to an API method and the parsed body of its 200 answer, as
\* far as _make_api_json_request is concerned
RequestData == [MERCHANT_CODE |-> merchant_code]

ResponseData == [Success |-> TRUE]

\* _make_api_json_request for each API method, with and without basket, the
\* exchange coming to each outcome
MakeApiJsonRequestCalls ==
    { [fn |-> "_make_api_json_request", pc |-> "called", url |-> url, basket |-> basket,
       outcome |-> outcome, result |-> None] :
          url \in ApiUrls, basket \in BasketRefs \cup {None}, outcome \in ApiOutcomes }

\* _make_api_json_request is evaluated
CallMakeApiJsonRequest ==
    /\ call.fn = "_make_api_json_request"
    /\ call.pc = "called"
    /\ call' = [call EXCEPT !.pc = "returned",
                            !.result = _make_api_json_request(call.url, RequestData,
                                                              ResponseData, call.basket,
                                                              call.outcome)]
    /\ UNCHANGED <<configuration, order_accessor, paygate, orders, req, sweep>>

\* mark_test_payment_as_paid(basket): True when the call of
\* MarkTestPaymentAsPaid completes, False when it raises GatewayError; any
\* other exception leaves the function
mark_test_payment_as_paid(basket, outcome) ==
    LET request_data == [MERCHANT_CODE |-> merchant_code, PAYMENT_REF |-> basket]
        made == _make_api_json_request("MarkTestPaymentAsPaid", request_data,
                                       ResponseData, basket, outcome)
    IN IF made.exc = None
       THEN [exc |-> None, value |-> TRUE, records |-> made.records]
       ELSE IF made.exc = "GatewayError"
       THEN [exc |-> None, value |-> FALSE, records |-> made.records]
       ELSE [exc |-> made.exc, value |-> FALSE, records |-> made.records]

MarkTestPaymentAsPaidCalls ==
    { [fn |-> "mark_test_payment_as_paid", pc |-> "called", basket |-> basket,
       outcome |-> outcome, result |-> None] :
          basket \in BasketRefs, outcome \in ApiOutcomes }

\* mark_test_payment_as_paid is evaluated
CallMarkTestPaymentAsPaid ==
    /\ call.fn = "mark_test_payment_as_paid"
    /\ call.pc = "called"
    /\ call' = [call EXCEPT !.pc = "returned",
                            !.result = mark_test_payment_as_paid(call.basket, call.outcome)]
    /\ UNCHANGED <<configuration, order_accessor, paygate, orders, req, sweep>>

\* the timeout of the self-notification when none is configured
DEFAULT_RETRY_CALLBACK_SUCCESS_TIMEOUT_SECONDS == 10

\* self.retry_callback_success_timeout_seconds
retry_callback_success_timeout_seconds ==
    Get(configuration, "retry_callback_success_timeout_seconds",
        DEFAULT_RETRY_CALLBACK_SUCCESS_TIMEOUT_SECONDS)

\* what requests.post of the self-notification comes to: a response with a
\* status, or an exception of the transport
RetryResponses ==
    { [exc |-> None, status_code |-> c] : c \in {200, 204, 401, 412, 500} }
        \cup { [exc |-> "Timeout", status_code |-> 0] }

\* a retry that takes every status from 200 to 299 for a success
send_callback_to_itself_to_retry_any_2xx(basket, response) ==
    LET ecommerce_callback_server ==
            get_ecommerce_url(reverse("ecommerce_plugin_paygate:callback_server"))
        posts == << [url |-> ecommerce_callback_server, json |-> RetryPayload(basket),
                     timeout |-> retry_callback_success_timeout_seconds] >>
    IN [exc |-> response.exc, posts |-> posts,
        success |-> /\ response.exc = None
                    /\ response.status_code >= 200
                    /\ response.status_code < 300]

\* send_callback_to_itself_to_retry(basket): one POST of the self-notification
\* to the server callback of the site; success is a response of status 200
send_callback_to_itself_to_retry(basket, response) ==
    LET ecommerce_callback_server ==
            get_ecommerce_url(reverse("ecommerce_plugin_paygate:callback_server"))
        posts == << [url |-> ecommerce_callback_server, json |-> RetryPayload(basket),
                     timeout |-> retry_callback_success_timeout_seconds] >>
    IN [exc |-> response.exc, posts |-> posts,
        success |-> response.exc = None /\ response.status_code = 200]

SendCallbackCalls ==
    { [fn |-> "send_callback_to_itself_to_retry", pc |-> "called", basket |-> basket,
       response |-> response, result |-> None] :
          basket \in BasketRefs, response \in RetryResponses }

\* send_callback_to_itself_to_retry is evaluated
CallSendCallback ==
    /\ call.fn = "send_callback_to_itself_to_retry"
    /\ call.pc = "called"
    /\ call' = [call EXCEPT !.pc = "returned",
                            !.result = send_callback_to_itself_to_retry(call.basket,
                                                                        call.response)]
    /\ UNCHANGED <<configuration, order_accessor, paygate, orders, req, sweep>>

\* get_single_seat(basket): the seat product of the basket, None without one
SingleSeats == {None, "course-v1:seat"}

\* the fields of the Checkout response, in the order get_transaction_parameters
\* parses them
CheckoutFields ==
    << "URL", "Success", "ReturnCode", "ShortReturnMessage", "LongReturnMessage",
       "SessionToken", "PaymentID" >>

\* bodies of the Checkout response: complete ones with Success true and false,
\* ones that lack the field Success or the field SessionToken, one whose
\* PaymentID is null, one without PaymentID and one without return messages
CheckoutResponses ==
    { [URL |-> "payment_page", Success |-> success, ReturnCode |-> "code",
       ShortReturnMessage |-> "short", LongReturnMessage |-> "long",
       SessionToken |-> "token", PaymentID |-> "id"] : success \in BOOLEAN }
      \cup { [URL |-> "payment_page", ReturnCode |-> "code", ShortReturnMessage |-> "short",
              LongReturnMessage |-> "long", SessionToken |-> "token", PaymentID |-> "id"],
             [URL |-> "payment_page", Success |-> TRUE, ReturnCode |-> "code",
              ShortReturnMessage |-> "short", LongReturnMessage |-> "long",
              PaymentID |-> "id"],
             [URL |-> "payment_page", Success |-> TRUE, ReturnCode |-> "code",
              ShortReturnMessage |-> "short", LongReturnMessage |-> "long",
              SessionToken |-> "token", PaymentID |-> None],
             [URL |-> "payment_page", Success |-> TRUE, ReturnCode |-> "code",
              ShortReturnMessage |-> "short", LongReturnMessage |-> "long",
              SessionToken |-> "token"],
             [URL |-> "payment_page", Success |-> TRUE, ReturnCode |-> "code",
              SessionToken |-> "token", PaymentID |-> "id"] }

NoParameters == [payment_page_url |-> None, payment_form_data |-> [SessionToken |-> None]]

\* get_transaction_parameters, its first statement: the record created early,
\* empty and without transaction id
success_payment_processor_response(basket) ==
    record_processor_response(EmptyDict, None, basket)

\* _parse_checkout_response: the message for a field the response lacks, which
\* quotes the response
ParseMessage(field, response_data) ==
    [text |-> "Could not parse field from response", field |-> field,
     content |-> response_data]

\* _parse_checkout_response over the fields: the fields the response lacks
MissingFields(response_data) ==
    { i \in 1..Len(CheckoutFields) : CheckoutFields[i] \notin DOMAIN response_data }

\* get_transaction_parameters: the data of the Checkout request; the course
\* id of the seat is the one entry of CALLBACK_SERVER_PARMS
paygate_checkout_request_data(basket, course_id) ==
    LET callback_server_parms ==
            IF course_id # None THEN << [key |-> "course_id", value |-> course_id] >>
                                ELSE <<>>
    IN [MERCHANT_CODE |-> merchant_code,
        PAYMENT_REF |-> basket,
        CURRENCY |-> basket_currency(basket),
        CALLBACK_SERVER_URL |->
            get_ecommerce_url(reverse("ecommerce_plugin_paygate:callback_server")),
        CALLBACK_SERVER_PARMS |-> callback_server_parms]

\* get_transaction_parameters after that record: the Checkout exchange, the
\* parsing of the response, the test of Success and the saving of the response
\* into the record created early, which is the last of `records`
get_transaction_parameters(basket, single_seat, outcome, response_data, records) ==
    LET course_id == single_seat
        made == _make_api_json_request("Checkout",
                                       paygate_checkout_request_data(basket, course_id),
                                       response_data, basket, outcome)
        missing == MissingFields(response_data)
        field == CheckoutFields[CHOOSE i \in missing : \A j \in missing : i <= j]
        parse_error == _raise_api_error(ParseMessage(field, response_data), FALSE, 0,
                                        response_data, basket)
        not_success == _raise_api_error(Message("Not success"), FALSE, 0, response_data, basket)
        saved == [records EXCEPT ![Len(records)] =
                      record_processor_response(response_data, basket, basket)]
    IN IF single_seat = None
       THEN \* `if course_id:` reads a name that was never bound
            [exc |-> "UnboundLocalError", message |-> "", parameters |-> NoParameters,
             records |-> records]
       ELSE IF made.exc # None
       THEN [exc |-> made.exc, message |-> made.message, parameters |-> NoParameters,
             records |-> records \o made.records]
       ELSE IF missing # {}
       THEN [exc |-> parse_error.exc, message |-> parse_error.error.message.text,
             parameters |-> NoParameters,
             records |-> records \o made.records \o parse_error.records]
       ELSE IF ~response_data.Success
       THEN [exc |-> not_success.exc, message |-> not_success.error.message.text,
             parameters |-> NoParameters,
             records |-> records \o made.records \o not_success.records]
       ELSE [exc |-> None, message |-> "",
             parameters |-> [payment_page_url |-> response_data.URL,
                             payment_form_data |->
                                 [SessionToken |-> response_data.SessionToken]],
             records |-> saved \o made.records]

NoResult == [exc |-> None, message |-> "", parameters |-> NoParameters, records |-> <<>>]

GetTransactionParametersCalls ==
    { [fn |-> "get_transaction_parameters", pc |-> "called", basket |-> basket,
       single_seat |-> single_seat, outcome |-> outcome,
       response_data |-> response_data, records |-> <<>>, result |-> NoResult] :
          basket \in BasketRefs, single_seat \in SingleSeats, outcome \in ApiOutcomes,
          response_data \in CheckoutResponses }

\* get_transaction_parameters: the record is created early
CheckoutRecordEarly ==
    /\ call.fn = "get_transaction_parameters"
    /\ call.pc = "called"
    /\ call' = [call EXCEPT !.pc = "recorded",
                            !.records = << success_payment_processor_response(call.basket) >>]
    /\ UNCHANGED <<configuration, order_accessor, paygate, orders, req, sweep>>

\* get_transaction_parameters: the rest of it, up to the return or the raise
CheckoutRequest ==
    /\ call.fn = "get_transaction_parameters"
    /\ call.pc = "recorded"
    /\ LET result == get_transaction_parameters(call.basket, call.single_seat,
                                                call.outcome, call.response_data,
                                                call.records)
       IN call' = [call EXCEPT !.pc = "returned", !.result = result,
                               !.records = result.records]
    /\ UNCHANGED <<configuration, order_accessor, paygate, orders, req, sweep>>

\* one call of one function, nothing else running
InitCalls ==
    /\ configuration = [merchant_code |-> merchant_code]
    /\ order_accessor = FALSE
    /\ paygate = {}
    /\ orders = <<>>
    /\ req = [s \in Slots |-> IdleReq]
    /\ sweep = IdleSweep
    /\ call \in AllowedClientIpCalls \cup HandleProcessorResponseCalls
                \cup MakeApiJsonRequestCalls \cup MarkTestPaymentAsPaidCalls
                \cup SendCallbackCalls \cup GetTransactionParametersCalls

NextCalls ==
    \/ CallAllowedClientIp
    \/ CallHandleProcessorResponse
    \/ CallMakeApiJsonRequest
    \/ CallMarkTestPaymentAsPaid
    \/ CallSendCallback
    \/ CheckoutRecordEarly
    \/ CheckoutRequest

SpecCalls == InitCalls /\ [][NextCalls]_vars

(***************************************************************************)
(* Properties.                                                             *)
(***************************************************************************)

\* the number of orders whose number is r
NumberOfOrders(r) == Cardinality({i \in 1..Len(orders) : orders[i].number = r})

\* the gateway holds exactly one completed transaction of this merchant for r
GatewayConfirms(r) ==
    LET rows == SearchByRef(paygate, r)
    IN /\ Len(rows) = 1
       /\ rows[1].MERCHANT_CODE = merchant_code
       /\ rows[1].STATUS_CODE = "C"
       /\ rows[1].PAYMENT_REF = r

\* request s is answered, was for basket reference r, and its handling had the
\* gateway's confirmation
ConfirmedDone(s, kind) ==
    /\ req[s].pc = "done"
    /\ req[s].kind = kind
    /\ req[s].basket \in BasketRefs
    /\ req[s].hpr # NoHpr

\* no order for the request's reference existed when request s was taken up
\* (requests being served one at a time)
NoOrderBefore(s) == ~order_exist(req[s].basket) \/ req[s].created

\* an order for the request's reference existed when request s was taken up
OrderBefore(s) == order_exist(req[s].basket) /\ ~req[s].created

ReceivedWithSuccess == HttpResponse("Received server callback with success", 200)

\* C1: whatever server callbacks, success, cancel and failure redirects and
\* sweeps have been processed, every purchase reference has at most one order
AtMostOneOrderPerReference ==
    \A r \in Refs : Len(OrdersOf(r)) <= 1

\* C1 witness: R1 has its order and a later confirmed notification for R1 has
\* been processed without creating another one
SecondNotificationProcessed ==
    /\ Len(OrdersOf("R1")) = 1
    /\ ConfirmedDone(1, "success")
    /\ req[1].basket = "R1"
    /\ ~req[1].created

\* C2: a handler gets past handle_payment only when the search it made in this
\* step returned exactly one matching completed transaction, and an order is
\* only ever added by a handler that got past handle_payment in the same
\* request, with that transaction as its payment source
TrustButVerify ==
    [][ /\ \A s \in Slots :
             /\ (req[s].pc = "pay" /\ req'[s].pc \in {"check", "create"}) =>
                    /\ GatewayConfirms(req[s].basket)
                    /\ req'[s].calls = req[s].calls + 1
                    /\ req'[s].hpr.transaction_id =
                          SearchByRef(paygate, req[s].basket)[1].TRANSACTION_ID
             /\ (req'[s].hpr # NoHpr /\ req[s].hpr = NoHpr) => req[s].pc = "pay"
             /\ (~req[s].created /\ req'[s].created) =>
                    /\ req[s].hpr # NoHpr
                    /\ req[s].calls >= 1
        /\ orders' # orders =>
             \E s \in Slots :
                /\ ~req[s].created /\ req'[s].created
                /\ orders' = Append(orders, [number |-> req[s].basket,
                                             basket |-> req[s].basket,
                                             source |-> req[s].hpr.transaction_id])
      ]_vars

\* C2 witness: a notification whose handling searched the gateway once has
\* created the order of its reference
OrderCreatedAfterConfirmation ==
    \E s \in Slots :
       /\ req[s].pc = "done"
       /\ req[s].created
       /\ req[s].calls = 1
       /\ NumberOfOrders(req[s].basket) = 1

\* C3: a server callback with statusCode C and success true, for a reference
\* with a basket and no order, confirmed by the gateway, is answered 200
\* "Received server callback with success" and then exactly one order exists
ServerCallbackCreatesOrder ==
    (/\ ConfirmedDone(1, "server")
     /\ NoOrderBefore(1))
    => /\ req[1].resp = ReceivedWithSuccess
       /\ NumberOfOrders(req[1].basket) = 1

SuccessRedirectCreatesOrderOnce ==
    /\ (ConfirmedDone(1, "success") /\ NoOrderBefore(1))
         => /\ req[1].resp = redirect(get_receipt_page_url(req[1].basket))
            /\ req[1].created
            /\ NumberOfOrders(req[1].basket) = 1
    /\ (ConfirmedDone(1, "server") /\ OrderBefore(1))
         => NumberOfOrders(req[1].basket) = 1

\* C6: with two notifications handled concurrently, their steps interleaved
\* between the test for an order and its creation, no reference ever has more
\* than one order
NoDuplicateOrderUnderRace ==
    \A r \in BasketRefs : NumberOfOrders(r) <= 1

\* C6 witness: two handlers for R1 both passed the test for an order and both
\* had the gateway's confirmation; one created the order, the other was refused
RaceResolved ==
    \E s, t \in Slots :
       /\ s # t
       /\ order_accessor
       /\ ConfirmedDone(s, "success") /\ ConfirmedDone(t, "success")
       /\ req[s].basket = "R1" /\ req[t].basket = "R1"
       /\ req[s].created
       /\ ~req[t].created

\* C7: a server callback whose payload holds payment_ref only, for a reference
\* with a basket and no order that the gateway confirms, is answered 200
\* "Received server callback with success" with exactly one order, as for any
\* other values of the remaining fields
MinimalPayloadAccepted ==
    (/\ req[1].pc = "done"
     /\ req[1].kind = "server"
     /\ allowed_networks = <<>>
     /\ DOMAIN req[1].payload = {"payment_ref"}
     /\ req[1].payload.payment_ref \in BasketRefs
     /\ GatewayConfirms(req[1].payload.payment_ref)
     /\ (~order_exist(req[1].payload.payment_ref) \/ req[1].created))
    => /\ req[1].resp = ReceivedWithSuccess
       /\ NumberOfOrders(req[1].payload.payment_ref) = 1

\* the caller of request s passes the IP check
PassesIpCheck(s) ==
    \/ allowed_networks = <<>>
    \/ MemberOfSome(get_client_ip(req[s].xff, req[s].remote_addr), allowed_networks)

\* C8: a server callback that passes the IP check and carries no payment_ref
\* is answered 412, without gateway call and without order
MissingReferenceIs412 ==
    (/\ req[1].pc = "done"
     /\ req[1].kind = "server"
     /\ PassesIpCheck(1)
     /\ "payment_ref" \notin DOMAIN req[1].payload)
    => /\ req[1].resp.status = 412
       /\ req[1].calls = 0
       /\ ~req[1].created

\* C9: a server callback is answered 401 exactly when an allow-list is
\* configured and the caller's address, the first X-Forwarded-For entry if
\* the header is present and REMOTE_ADDR otherwise, is in none of its networks
UnauthorizedIffNotAllowed ==
    (req[1].pc = "done" /\ req[1].kind = "server")
    => (req[1].resp.status = 401 <=> ~PassesIpCheck(1))

\* C10: a server callback of a caller outside the configured allow-list is
\* rejected with 401, and the request makes no gateway call and no order
RejectedCallbackHasNoEffect ==
    [][ (/\ req[1].pc = "received"
         /\ req[1].kind = "server"
         /\ ~PassesIpCheck(1)
         /\ req'[1].pc # "received")
        => /\ req'[1].pc = "done"
           /\ req'[1].resp.status = 401
           /\ req'[1].calls = 0
           /\ orders' = orders
      ]_vars

\* C11: allowed_client_ip returns a boolean for every address and every
\* non-empty list of networks: true when the address is a member of at least
\* one network of the list, false when it is in none
AllowedClientIpIsMembership ==
    (call.fn = "allowed_client_ip" /\ call.pc = "returned")
    => call.result = (IF MemberOfSome(call.client_ip, call.allowed_networks)
                      THEN "True" ELSE "False")

\* the search answer rows holds exactly one transaction, and its merchant
\* code, status and reference are the expected ones of reference r
SingleMatchingRow(rows, r) ==
    /\ Len(rows) = 1
    /\ "MERCHANT_CODE" \in DOMAIN rows[1] /\ rows[1].MERCHANT_CODE = merchant_code
    /\ "STATUS_CODE" \in DOMAIN rows[1] /\ rows[1].STATUS_CODE = "C"
    /\ "PAYMENT_REF" \in DOMAIN rows[1] /\ rows[1].PAYMENT_REF = r

\* C12: handle_processor_response for the basket of reference R succeeds only
\* if the search returned exactly one transaction whose MERCHANT_CODE is the
\* configured one, whose STATUS_CODE is C and whose PAYMENT_REF is R; for no
\* row, for two rows (even when one of them matches) and for any mismatch it
\* raises GatewayError and returns no HandledProcessorResponse
ConfirmationNeedsSingleMatchingRow ==
    (call.fn = "handle_processor_response" /\ call.pc = "returned")
    => /\ call.result.exc = None => SingleMatchingRow(call.return_value, call.basket)
       /\ ~SingleMatchingRow(call.return_value, call.basket)
             => /\ call.result.exc = "GatewayError"
                /\ call.result.hpr = NoHpr

\* C12 witness: the search returned two transactions of which the first would
\* match on its own, and GatewayError was raised
TwoRowsRefused ==
    /\ call.fn = "handle_processor_response"
    /\ call.pc = "returned"
    /\ Len(call.return_value) = 2
    /\ SingleMatchingRow(<<call.return_value[1]>>, call.basket)
    /\ call.result.exc = "GatewayError"

\* the value of an amount text in hundredths, each digit weighted by its place
AmountInHundredths(text) ==
    LET p == IF \E i \in 1 .. Len(text) : text[i] = "."
             THEN CHOOSE i \in 1 .. Len(text) : text[i] = "."
             ELSE Len(text) + 1
        Weight(i) == IF i < p THEN 10 ^ (p + 1 - i) ELSE 10 ^ (p + 2 - i)
        Sum[i \in 0 .. Len(text)] ==
            IF i = 0 THEN 0
            ELSE Sum[i - 1] + (IF i = p THEN 0 ELSE DigitValue(text[i]) * Weight(i))
    IN Sum[Len(text)]

\* the value of a decimal in hundredths (no amount has more than two decimals)
DecimalInHundredths(d) == d.coefficient * 10 ^ (2 + d.exponent)

\* C13: the HandledProcessorResponse of a successful confirmation has the
\* TRANSACTION_ID of the transaction as transaction_id, the exact decimal
\* value of PAYMENT_AMOUNT as total, the basket's currency as currency,
\* PAYMENT_TYPE_CODE as card_type, and as card_number CARD_MASKED_PAN when it
\* is present and non-empty and PAYMENT_TYPE_CODE otherwise
HandledProcessorResponseFields ==
    (/\ call.fn = "handle_processor_response"
     /\ call.pc = "returned"
     /\ call.result.exc = None)
    => LET row == call.return_value[1]
           hpr == call.result.hpr
       IN /\ hpr.transaction_id = row.TRANSACTION_ID
          /\ DecimalInHundredths(hpr.total) = AmountInHundredths(row.PAYMENT_AMOUNT)
          /\ hpr.currency = (IF call.basket = "R1" THEN "EUR" ELSE "USD")
          /\ hpr.card_type = row.PAYMENT_TYPE_CODE
          /\ hpr.card_number =
                (IF "CARD_MASKED_PAN" \in DOMAIN row /\ row.CARD_MASKED_PAN # ""
                 THEN row.CARD_MASKED_PAN
                 ELSE row.PAYMENT_TYPE_CODE)

\* C13 witness: a confirmation of a transaction whose CARD_MASKED_PAN is empty
\* and whose amount is 0.5 returned the payment type as card_number and 5
\* tenths as total
ConfirmedWithoutCardMask ==
    /\ call.fn = "handle_processor_response"
    /\ call.pc = "returned"
    /\ call.result.exc = None
    /\ "CARD_MASKED_PAN" \in DOMAIN call.return_value[1]
    /\ call.return_value[1].CARD_MASKED_PAN = ""
    /\ call.return_value[1].PAYMENT_AMOUNT = <<"0", ".", "5">>
    /\ call.result.hpr.card_number = call.return_value[1].PAYMENT_TYPE_CODE
    /\ call.result.hpr.total = [coefficient |-> 5, exponent |-> -1]

\* C14: a success redirect for a reference whose order exists when it is taken
\* up is answered with a redirect to the receipt page of that reference, makes
\* no gateway call and creates no order
SuccessRedirectWithOrderOnlyRedirects ==
    (/\ req[1].pc = "done"
     /\ req[1].kind = "success"
     /\ req[1].basket \in BasketRefs
     /\ OrderBefore(1))
    => /\ req[1].resp = redirect(get_receipt_page_url(req[1].basket))
       /\ req[1].calls = 0
       /\ NumberOfOrders(req[1].basket) = 1

\* C15: every GET of the success endpoint is answered 302, never 4xx or 5xx:
\* to the failure page when no basket resolves from the reference, to the
\* receipt page of the reference or the error page when one resolves
SuccessAlwaysRedirects ==
    (req[1].pc = "done" /\ req[1].kind = "success")
    => /\ req[1].resp.status = 302
       /\ req[1].basket = None => req[1].resp.url = failure_url
       /\ req[1].basket # None =>
             req[1].resp.url \in {get_receipt_page_url(req[1].basket), error_url}

\* the path the deployment configures under key, or the host's default
ConfiguredPath(key, default) ==
    IF key \in DOMAIN configuration THEN configuration[key] ELSE default

\* C16: the cancel and the failure redirect are answered 302, to the
\* configured cancel path respectively error path or the host's default, and
\* handling them makes no gateway call, adds no order and leaves the gateway's
\* transactions as they are
CancelAndFailureOnlyRedirect ==
    [][ \A s \in Slots :
          (/\ req[s].pc = "received"
           /\ req[s].kind \in {"cancel", "failure"}
           /\ req'[s] # req[s])
          => /\ req'[s].pc = "done"
             /\ req'[s].resp.status = 302
             /\ req'[s].resp.url.path =
                   (IF req[s].kind = "cancel"
                    THEN ConfiguredPath("cancel_checkout_path", "/checkout/cancel-checkout/")
                    ELSE ConfiguredPath("error_path", "/checkout/error/"))
             /\ req'[s].calls = 0
             /\ ~req'[s].created
             /\ orders' = orders
             /\ paygate' = paygate
      ]_vars

\* C16 witness: with an order in the store and a custom error path configured,
\* a failure redirect was answered with the redirect to that path
FailureRedirectedToConfiguredPath ==
    /\ req[1].pc = "done"
    /\ req[1].kind = "failure"
    /\ "error_path" \in DOMAIN configuration
    /\ req[1].resp.url.path = configuration.error_path
    /\ Len(orders) = 1

\* the transaction the sweep is at
CurrentTransaction == sweep.response_data[sweep.i]

\* a step of the sweep that is at a transaction of its page
AtTransaction ==
    /\ sweep.pc = "iterate"
    /\ sweep.i <= Len(sweep.response_data)
    /\ sweep' # sweep

\* C17: a sweep with page size n searches at the offsets 0, n, 2n, ..., never
\* at an offset beyond the number of rows of the gateway (so that it makes at
\* most rows / n + 1 searches and comes to its end), asks for a further page
\* only after a page of n rows, and ends after the first page of fewer than n
\* rows without a further search
SweepPagination ==
    /\ [][ /\ (sweep.pc = "search" /\ sweep' # sweep) =>
                /\ sweep.offset_rows = sweep.searches * NextRows
                /\ sweep.offset_rows <= Cardinality(paygate)
                /\ sweep'.searches = sweep.searches + 1
           /\ (sweep.pc = "iterate" /\ sweep'.pc = "search") =>
                /\ Len(sweep.response_data) = NextRows
                /\ sweep'.offset_rows = sweep.offset_rows + NextRows
           /\ ( /\ sweep.pc = "iterate"
                /\ sweep.i > Len(sweep.response_data)
                /\ Len(sweep.response_data) < NextRows
                /\ sweep' # sweep ) =>
                /\ sweep'.pc = "idle"
                /\ sweep'.result = "finished"
                /\ sweep'.searches = sweep.searches
         ]_vars
    /\ [](sweep.searches <= Cardinality(paygate) \div NextRows + 1)

\* a sweep over n transactions has ended after two searches, the second one
\* at offset n for a page without rows
TwoSearchesForOneFullPage ==
    /\ Cardinality(paygate) = NextRows
    /\ sweep.pc = "idle"
    /\ sweep.result = "finished"
    /\ sweep.searches = 2
    /\ sweep.offset_rows = NextRows

\* C18: a transaction of a sweep page that the sweep comes to, whose reference
\* has no basket or has an order, is passed over without a request to the
\* server callback; for any other one a single request is posted to the
\* server callback, with the reference of the transaction, and after its
\* response the sweep is at the next transaction; no step of the sweep changes
\* the orders
SweepTransactionHandling ==
    [][ /\ AtTransaction =>
             LET payment_ref == CurrentTransaction.PAYMENT_REF
             IN IF payment_ref \notin BasketRefs \/ NumberOfOrders(payment_ref) > 0
                THEN /\ sweep' = [sweep EXCEPT !.i = sweep.i + 1, !.last = "skipped"]
                     /\ req' = req
                ELSE /\ sweep'.pc = "waiting"
                     /\ sweep'.i = sweep.i
                     /\ sweep'.slot \in Slots
                     /\ req[sweep'.slot] = IdleReq
                     /\ req'[sweep'.slot].kind = "server"
                     /\ req'[sweep'.slot].origin = "sweep"
                     /\ req'[sweep'.slot].payload.payment_ref = payment_ref
                     /\ \A s \in Slots \ {sweep'.slot} : req'[s] = req[s]
        /\ (sweep.pc = "waiting" /\ sweep' # sweep) =>
             \/ sweep'.pc = "iterate" /\ sweep'.i = sweep.i + 1
             \/ sweep'.pc = "idle" /\ sweep'.result = "raised"
        /\ \A s \in Slots :
             (req'[s].origin = "sweep" /\ req[s].origin # "sweep") =>
                 (sweep.pc = "iterate" /\ sweep'.pc = "waiting" /\ sweep'.slot = s)
        /\ (sweep' # sweep) => (orders' = orders)
      ]_vars

\* the sweep has passed over the transaction of R1, which has an order, and
\* waits for the response to the request it posted for R2
SkippedOrderedThenPosted ==
    /\ sweep.pc = "waiting"
    /\ sweep.i = 2
    /\ sweep.last = "skipped"
    /\ sweep.response_data[1].PAYMENT_REF = "R1"
    /\ NumberOfOrders("R1") = 1
    /\ req[sweep.slot].origin = "sweep"
    /\ req[sweep.slot].payload.payment_ref = "R2"

\* a step of a sweep that was started after another one, or of the handling of
\* a request that it posted
StepOfSecondRun ==
    /\ sweep.again
    /\ \/ sweep' # sweep
       \/ \E s \in Slots : req[s].origin = "sweep" /\ req'[s] # req[s]

\* C19: with the transactions of the gateway unchanged, a sweep run after
\* another one posts no request for a reference that has an order, and neither
\* its steps nor the handling of its requests add an order for a reference
\* that has one
SweepIdempotent ==
    [][ StepOfSecondRun =>
          /\ paygate' = paygate
          /\ \A s \in Slots :
               (req'[s].origin = "sweep" /\ req[s].origin # "sweep") =>
                   NumberOfOrders(req'[s].payload.payment_ref) = 0
          /\ \A r \in BasketRefs :
               NumberOfOrders(r) > 0 => NumberOfOrders(r)' = NumberOfOrders(r)
      ]_vars

\* a sweep run after another one has passed over the transaction of R1, whose
\* order exists, and has come to its end
SecondRunSkippedOrdered ==
    /\ sweep.again
    /\ sweep.pc = "iterate"
    /\ sweep.i = 2
    /\ sweep.last = "skipped"
    /\ sweep.response_data[1].PAYMENT_REF = "R1"
    /\ NumberOfOrders("R1") = 1

\* C20: when the gateway holds exactly one completed transaction for R1, whose
\* basket exists, and no order exists for R1, then with the sweep run again
\* and again and the gateway, the server callback and the order store
\* answering without error, an order for R1 comes to exist
ConfirmedPaymentNeverLost ==
    (GatewayConfirms("R1") /\ NumberOfOrders("R1") = 0) ~> (NumberOfOrders("R1") > 0)

\* _make_api_json_request has returned or raised
ApiRequestReturned ==
    /\ call.fn = "_make_api_json_request"
    /\ call.pc = "returned"

\* the call raised GatewayError with this message
RaisedGatewayError(message) ==
    /\ call.result.exc = "GatewayError"
    /\ call.result.message = message

\* C21 as stated: a timeout raises GatewayError 'API timeout', a body that is
\* not parseable JSON raises GatewayError 'Could not parse JSON content from
\* response', a status other than 200 raises GatewayError 'Invalid API
\* response', and the parsed payload is returned only for status 200 with a
\* parseable body
FailuresNormalisedByKind ==
    ApiRequestReturned =>
        /\ call.outcome = "timeout" => RaisedGatewayError("API timeout")
        /\ (call.outcome \in Responses /\ ~is_json(call.outcome)) =>
               RaisedGatewayError("Could not parse JSON content from response")
        /\ (call.outcome \in Responses /\ status_code(call.outcome) # 200) =>
               RaisedGatewayError("Invalid API response")
        /\ call.result.exc = None =>
               /\ call.outcome \in Responses
               /\ status_code(call.outcome) = 200
               /\ is_json(call.outcome)
               /\ call.result.data = ResponseData

\* C21 amended: a timeout raises GatewayError 'API timeout'; a response whose
\* body is not parseable JSON raises GatewayError 'Could not parse JSON content
\* from response', whatever its status; a response with a parseable body and a
\* status other than 200 raises GatewayError 'Invalid API response'; the parsed
\* payload is returned only for status 200 with a parseable body
FailuresNormalisedBodyFirst ==
    ApiRequestReturned =>
        /\ call.outcome = "timeout" => RaisedGatewayError("API timeout")
        /\ (call.outcome \in Responses /\ ~is_json(call.outcome)) =>
               RaisedGatewayError("Could not parse JSON content from response")
        /\ ( /\ call.outcome \in Responses
             /\ is_json(call.outcome)
             /\ status_code(call.outcome) # 200 ) =>
               RaisedGatewayError("Invalid API response")
        /\ call.result.exc = None =>
               /\ call.outcome \in Responses
               /\ status_code(call.outcome) = 200
               /\ is_json(call.outcome)
               /\ call.result.data = ResponseData

\* the gateway answered 502 with a body that is no JSON, and the call raised
\* the GatewayError of the unparseable body
ErrorPageReportedAsUnparseable ==
    /\ ApiRequestReturned
    /\ call.outcome = "error_page"
    /\ status_code(call.outcome) = 502
    /\ RaisedGatewayError("Could not parse JSON content from response")

\* C22: every transport error of a gateway call, a timeout as well as a
\* connection failure, reaches the caller of _make_api_json_request as a
\* GatewayError, for every API method
TransportErrorsAreGatewayErrors ==
    (ApiRequestReturned /\ call.outcome \in {"timeout", "connection_error"}) =>
        call.result.exc = "GatewayError"

\* C23: mark_test_payment_as_paid never raises: it returns true when the
\* gateway call completes and false for every failure of it (timeout,
\* connection failure, status other than 200, unparseable body)
MarkTestPaymentNeverRaises ==
    (call.fn = "mark_test_payment_as_paid" /\ call.pc = "returned") =>
        /\ call.result.exc = None
        /\ call.result.value = (call.outcome = "ok")

\* the self-notification retry has returned a report for a response
RetryReported ==
    /\ call.fn = "send_callback_to_itself_to_retry"
    /\ call.pc = "returned"
    /\ call.response.exc = None

\* the one POST of the retry: to the server callback of the site, with the
\* payload of a completed payment marked as a retry
RetryPostsOnce ==
    /\ Len(call.result.posts) = 1
    /\ call.result.posts[1].url.path = "/payment/paygate/callback/server/"
    /\ call.result.posts[1].json =
           [payment_ref |-> call.basket, statusCode |-> "C", success |-> "true",
            retry_baskets_payed_in_paygate |-> "true"]

\* C29 as stated: the retry sends exactly one POST to the server callback with
\* the payload {payment_ref, statusCode 'C', success true,
\* retry_baskets_payed_in_paygate 'true'} and reports success exactly when the
\* response has a status of the 200 level (200 to 299)
RetrySuccessIs2xx ==
    RetryReported =>
        /\ RetryPostsOnce
        /\ call.result.success <=>
               (call.response.status_code >= 200 /\ call.response.status_code < 300)

\* C29 amended: the retry sends exactly one POST to the server callback with
\* that payload and reports success exactly when the response has status 200
RetrySuccessIs200 ==
    RetryReported =>
        /\ RetryPostsOnce
        /\ call.result.success <=> (call.response.status_code = 200)

\* the server answered 204 and the retry reported no success
RetryOf204ReportedFailed ==
    /\ RetryReported
    /\ call.response.status_code = 204
    /\ ~call.result.success
    /\ Len(call.result.posts) = 1

\* Checkout has returned or raised after an exchange that brought a
\* response of status 200 with a parseable body
CheckoutAnswered ==
    /\ call.fn = "get_transaction_parameters"
    /\ call.pc = "returned"
    /\ call.single_seat # None
    /\ call.outcome = "ok"

\* the record holds the data, as its response or as the data of the response
\* of the error it describes
RecordHolds(record, data) ==
    \/ record.response = data
    \/ /\ "response" \in DOMAIN record.response
       /\ record.response.response.data = data
    \/ /\ "message" \in DOMAIN record.response
       /\ record.response.message.content = data

\* C30: when the Checkout response does not have Success equal to true, the
\* response is recorded in the audit log, GatewayError is raised to the
\* caller, and no payment_page_url / SessionToken parameters are returned
CheckoutWithoutSuccessRecordedAndRaised ==
    ( /\ CheckoutAnswered
      /\ Get(call.response_data, "Success", FALSE) # TRUE ) =>
        /\ \E i \in 1..Len(call.records) : RecordHolds(call.records[i], call.response_data)
        /\ call.result.exc = "GatewayError"
        /\ call.result.parameters = NoParameters

\* the records written so far are all kept as they are
Grows(before, after) ==
    /\ Len(after) >= Len(before)
    /\ \A i \in 1..Len(before) : after[i] = before[i]

\* C28: the audit log is append-only: no operation modifies or deletes a
\* record that has been written, the sequence of records only grows
AuditLogAppendOnly ==
    [][ (call.fn = "get_transaction_parameters") => Grows(call.records, call'.records)
      ]_vars

\* the step of a server callback in which payment handling, order creation or
\* post-order handling raised: the request ends in the payment step, or it
\* ends in the order step without an order created or with post-order
\* handling raising
ServerStepRaised(s) ==
    /\ req[s].kind = "server"
    /\ req'[s].pc = "done"
    /\ \/ req[s].pc = "pay"
       \/ /\ req[s].pc = "create"
          /\ \/ ~req'[s].created
             \/ req'[s].post_order \notin {None, "handled"}

PaymentAndOrderAtomic ==
    [][ \A s \in Slots :
          ( /\ req[s].pc = "create"
            /\ req'[s].pc = "done"
            /\ ~req'[s].created ) =>
              /\ orders' = orders
              /\ \A i \in 1..Len(req'[s].records) :
                     req'[s].records[i].response = req[s].payload
      ]_vars

\* C26: every inbound notification (server callback POST, success, cancel and
\* failure redirect) appends one record that holds its payload, whatever the
\* outcome of the request
EveryNotificationRecorded ==
    [][ \A s \in Slots :
          ( /\ req[s].pc = "received"
            /\ req'[s].pc # "received"
            /\ req[s].kind \in {"server", "success", "cancel", "failure"} ) =>
              /\ Len(req'[s].records) = 1
              /\ req'[s].records[1].response = req[s].payload
      ]_vars

\* C27: every gateway call made with a basket leaves at least one record,
\* also when the call fails: the record of the outgoing request, persisted
\* before the request is sent, is among the records after the step that made
\* the call
EveryGatewayCallRecorded ==
    [][ \A s \in Slots :
          req'[s].calls > req[s].calls =>
              \E i \in (Len(req[s].records) + 1)..Len(req'[s].records) :
                  "url" \in DOMAIN req'[s].records[i].response
      ]_vars

\* C31: Checkout succeeds and returns {payment_page_url: URL,
\* payment_form_data: {SessionToken}} for every response that holds a URL,
\* Success true and a session token; the payment id and the return messages
\* may be absent
CheckoutNeedsUrlSuccessToken ==
    ( /\ CheckoutAnswered
      /\ {"URL", "Success", "SessionToken"} \subseteq DOMAIN call.response_data
      /\ call.response_data.Success = TRUE ) =>
        /\ call.result.exc = None
        /\ call.result.parameters =
               [payment_page_url |-> call.response_data.URL,
                payment_form_data |-> [SessionToken |-> call.response_data.SessionToken]]

\* C40: Checkout sends the Checkout request also for a basket without seat,
\* then with an empty CALLBACK_SERVER_PARMS list; with a seat the list holds
\* the one entry {key: 'course_id', value: the course id of the seat}
CheckoutSentWithOrWithoutSeat ==
    (call.fn = "get_transaction_parameters" /\ call.pc = "returned") =>
        \E i \in 1..Len(call.records) :
            /\ "url" \in DOMAIN call.records[i].response
            /\ call.records[i].response.url = "Checkout"
            /\ call.records[i].response.data.CALLBACK_SERVER_PARMS =
                   IF call.single_seat = None
                   THEN <<>>
                   ELSE << [key |-> "course_id", value |-> call.single_seat] >>

\* C36: when no timeout is configured for it, the POST of the
\* self-notification retry is sent with a timeout of 30 seconds
RetryTimeoutDefaultsTo30 ==
    ( /\ call.fn = "send_callback_to_itself_to_retry"
      /\ call.pc = "returned"
      /\ "retry_callback_success_timeout_seconds" \notin DOMAIN configuration ) =>
        \A i \in 1..Len(call.result.posts) : call.result.posts[i].timeout = 30

\* C35: order creation from a confirmed notification succeeds also when the
\* owner of the basket has no address marked as default for billing: the
\* create-order step of a basket without order then places the order
OrderCreatedWithoutBillingAddress ==
    [][ \A s \in Slots :
          ( /\ req[s].pc = "create"
            /\ req'[s].pc = "done"
            /\ _get_user_billing_address(req[s].basket) = None
            /\ ~order_exist(req[s].basket) ) =>
              /\ req'[s].created
              /\ \E i \in 1..Len(orders') : orders'[i].number = req[s].basket
      ]_vars

\* C37: after a notification handler has created an order, handle_post_order
\* is invoked with exactly that order, the order whose number is the
\* reference of the basket, and handles it
PostOrderGetsCreatedOrder ==
    \A s \in Slots :
        req[s].created =>
            /\ req[s].order = req[s].basket
            /\ req[s].post_order = "handled"

\* C33: a GET to the server callback is answered 405 (method not allowed);
\* it makes no gateway call and creates no order
ServerGetNotAllowed ==
    [][ \A s \in Slots :
          (req[s].kind = "server_get" /\ req[s].pc = "received") =>
              /\ orders' = orders
              /\ req'[s].calls = 0
              /\ req'[s].pc = "done" => req'[s].resp.status = 405
      ]_vars

\* a GET to the server callback with the query of a confirming notification
\* of a payment the gateway holds has been answered 405
ConfirmingGetAnswered405 ==
    \E s \in Slots :
        /\ req[s].kind = "server_get"
        /\ req[s].pc = "done"
        /\ req[s].resp.status = 405
        /\ GatewayConfirms(req[s].payload.payment_ref)

\* C34: the three channels treat a reference as already ordered exactly when
\* an order with its number exists: the sweep sends the self-notification for
\* a transaction with a basket exactly when no order exists, the server
\* callback goes on to create the order exactly when no order exists, and the
\* success redirect ends with the receipt page before any payment handling
\* exactly when an order exists
SameOrderGuardInEveryChannel ==
    [][ /\ ( /\ sweep.pc = "iterate"
             /\ sweep'.pc # "iterate" \/ sweep'.i # sweep.i
             /\ sweep.i <= Len(sweep.response_data)
             /\ get_basket_from_payment_ref(sweep.response_data[sweep.i].PAYMENT_REF)
                    # None ) =>
               ( sweep'.pc = "waiting" <=>
                   ~order_exist(get_basket_from_payment_ref(
                                    sweep.response_data[sweep.i].PAYMENT_REF)) )
        /\ \A s \in Slots :
             /\ ( /\ req[s].kind = "server"
                  /\ req[s].pc = "check"
                  /\ req'[s].pc # "check" ) =>
                    (req'[s].pc = "create" <=> ~order_exist(req[s].basket))
             /\ ( /\ req[s].kind = "success"
                  /\ req[s].pc = "received"
                  /\ req'[s].pc # "received"
                  /\ req'[s].basket # None ) =>
                    (req'[s].pc = "done" /\ req'[s].resp.status = 302
                        <=> order_exist(req'[s].basket))
      ]_vars

\* C39: a self-notification answered with a status other than 200 does not
\* stop the sweep: when such an answer is delivered, the sweep goes on with the
\* next transaction of the same page, its offset and its result as they were,
\* so that the remaining transactions are examined and posted as any other
SweepGoesOnAfterFailedRetry ==
    [][ ( /\ sweep.pc = "waiting"
          /\ req[sweep.slot].pc = "done"
          /\ req[sweep.slot].resp.status # 200
          /\ req'[sweep.slot].pc = "idle" ) =>
            /\ sweep'.pc = "iterate"
            /\ sweep'.i = sweep.i + 1
            /\ sweep'.response_data = sweep.response_data
            /\ sweep'.offset_rows = sweep.offset_rows
            /\ sweep'.result = sweep.result
      ]_vars

\* on a site with an allow-list every self-notification is answered 500; the
\* first transaction of the page was posted and answered, and the sweep has
\* posted the self-notification of the second one
SecondPostedAfterFailedRetry ==
    /\ allowed_networks # <<>>
    /\ sweep.pc = "waiting"
    /\ sweep.i = 2
    /\ sweep.last = "sent"
    /\ req[sweep.slot].origin = "sweep"

\* C38: the retry flag grants no bypass of the IP allow-list: a server
\* callback that carries retry_baskets_payed_in_paygate is answered 401
\* exactly when its caller does not pass the IP check, as any other server
\* callback, and then makes no gateway call and creates no order
RetryFlagGrantsNoBypass ==
    \A s \in Slots :
        ( /\ req[s].pc = "done"
          /\ req[s].kind = "server"
          /\ "retry_baskets_payed_in_paygate" \in DOMAIN req[s].payload ) =>
            /\ req[s].resp.status = 401 <=> ~PassesIpCheck(s)
            /\ ~PassesIpCheck(s) => (req[s].calls = 0 /\ ~req[s].created)

\* the number of orders of reference r after the step
NumberOfOrdersAfter(r) == Cardinality({i \in 1..Len(orders') : orders'[i].number = r})

\* C32: CANCELLED and FAILED are terminal: once a cancel or failure redirect
\* has been processed for a reference, no step of a later notification or of
\* a sweep confirms the payment of that reference or creates its order
CancelledAndFailedAreTerminal ==
    [][ \A s \in Slots :
          RedirectProcessed(req[s].basket) =>
              /\ ~(req[s].hpr = NoHpr /\ req'[s].hpr # NoHpr)
              /\ ~(~req[s].created /\ req'[s].created)
              /\ NumberOfOrdersAfter(req[s].basket) = NumberOfOrders(req[s].basket)
      ]_vars

\* C32, as the code has it: the cancel and failure redirects leave nothing that
\* a later notification consults; after such a redirect has been processed for
\* a reference, a later notification confirms the payment of that reference
\* only on the gateway's confirmation, and the order of the reference is
\* created only by a notification that had this confirmation
ConfirmedAfterRedirectOnlyByGateway ==
    [][ \A s \in Slots :
          RedirectProcessed(req[s].basket) =>
              /\ (req[s].hpr = NoHpr /\ req'[s].hpr # NoHpr) =>
                     /\ req[s].pc = "pay"
                     /\ GatewayConfirms(req[s].basket)
              /\ (~req[s].created /\ req'[s].created) =>
                     /\ req[s].hpr # NoHpr
                     /\ req[s].calls >= 1
              /\ NumberOfOrdersAfter(req[s].basket) # NumberOfOrders(req[s].basket) =>
                     \E t \in Slots : /\ req[t].basket = req[s].basket
                                      /\ ~req[t].created /\ req'[t].created
      ]_vars

\* C32 witness: the cancel or failure redirect of R1 has been processed, and a
\* success redirect that arrived after it has created the order of R1
OrderCreatedAfterRedirect ==
    /\ RedirectProcessed("R1")
    /\ req[1].pc = "done"
    /\ req[1].kind = "success"
    /\ req[1].basket = "R1"
    /\ req[1].created
    /\ NumberOfOrders("R1") = 1

====
